---------------------------- MODULE Spec2Model ----------------------------
(***************************************************************************)
(* Model of iot-comm-rs: the telemetry codec (src/core/mod.rs), the broker *)
(* (src/broker/main.rs: a ROUTER frontend proxied to a DEALER backend that *)
(* feeds 5 worker threads) and the controller client agent                 *)
(* (src/client/main.rs).                                                   *)
(*                                                                         *)
(* Bytes are the integers 0..255, a frame is a sequence of bytes, and a    *)
(* message is a sequence of frames.  Messages in the model carry a ghost   *)
(* field rid = <<client, n>> naming the n-th request of a client, so that  *)
(* properties can speak of "the corresponding request"; no action reads    *)
(* it to decide what to do.                                                *)
(***************************************************************************)
EXTENDS Integers, Sequences, FiniteSets, TLC

\* ------------------------------------------------------------------ bounds
\* Number of connections to the frontend.
NumClients == 2
\* Requests one connection issues before the model stops it.
MaxSends == 2
\* Requests the single sender of the load specifications issues.
MaxBurst == 6
\* Calls of Controller::sensor_data the controller harness makes.
MaxCalls == 2

\* ------------------------------------------------------- program constants
\* broker/main.rs:25  for _ in 0..5 { thread::spawn(... server_worker ...) }
NumWorkers == 5
\* core/mod.rs:92  for _ in 0..8 { sensors.push(Sensor::new()) }
NumZones == 8

Clients == 1..NumClients
Workers == 1..NumWorkers

VARIABLES
    endian,     \* byte order of the build target: "little" or "big"
    input,      \* codec harness: the 4 bytes handed to Sensor::from
    decoded,    \* codec harness: the Sensor decoded from input
    output,     \* codec harness: to_bytes of the decoded Sensor
    cstep,      \* codec harness: position of the harness
    controller, \* controller harness: the Controller (id, sensors)
    data,       \* controller harness: the bytes the last sensor_data returned
    calls,      \* controller harness: number of calls of sensor_data so far
    spc,        \* position of server_task
    bound,      \* the endpoints server_task has bound
    cid,        \* cid[c]: identity (frame) of connection c
    cpc,        \* cpc[c]: position of client agent c in its loop
    sent,       \* sent[c]: number of requests c has sent
    consumed,   \* consumed[c]: number of replies c has taken off its socket
    requests,   \* ghost: rid -> the payload the client sent as that request
    uplink,     \* uplink[c]: c's requests not yet read by the proxy (ROUTER in-pipe of c)
    rr,         \* backend DEALER: the worker the next request goes to
    inbox,      \* inbox[w]: messages distributed to worker w, not yet received
    wpc,        \* wpc[w]: position of worker w in server_worker
    identity,   \* identity[w]: local `identity` of worker w
    message,    \* message[w]: local `message` of worker w
    wrid,       \* ghost: the request worker w is processing
    wout,       \* wout[w]: frames sent with SNDMORE, waiting for the final frame
    outbox,     \* outbox[w]: replies of w not yet read by the proxy (DEALER in-pipe of w)
    downlink,   \* downlink[c]: replies routed to c, not yet received by c
    stdout,     \* the log entries printed by the workers
    handled     \* ghost: <<rid, w>> for every request a worker has received

codecVars == <<input, decoded, output, cstep>>
ctlVars == <<controller, data, calls>>
startVars == <<spc, bound>>
clientVars == <<cpc, sent, consumed, requests, uplink, downlink>>
brokerVars == <<rr, inbox, wpc, identity, message, wrid, wout, outbox, stdout, handled>>
vars == <<endian, cid, codecVars, ctlVars, startVars, clientVars, brokerVars>>

\* ------------------------------------------------------------------- codec
\* half::f16::from_ne_bytes: the 16 bits of the float, read in the byte order
\* of the target.  A Sensor field is kept as its 16-bit pattern (a u16).
from_ne_bytes(e, b) ==
    IF e = "little" THEN b[1] + 256 * b[2] ELSE 256 * b[1] + b[2]

\* half::f16::to_ne_bytes
to_ne_bytes(e, x) ==
    IF e = "little" THEN <<x % 256, x \div 256>> ELSE <<x \div 256, x % 256>>

\* impl From<&[u8]> for Sensor: indexes bytes[0..3]; panics on a shorter slice.
SensorFromPanics(chunk) == Len(chunk) < 4

SensorFrom(e, chunk) ==
    [temperature |-> from_ne_bytes(e, <<chunk[1], chunk[2]>>),
     humidity    |-> from_ne_bytes(e, <<chunk[3], chunk[4]>>)]

\* Mutant: the two fields are written in the other order.
to_bytes_Swapped(e, s) == to_ne_bytes(e, s.humidity) \o to_ne_bytes(e, s.temperature)

\* impl Bytes for Sensor: [temperature.to_ne_bytes(), humidity.to_ne_bytes()].concat()
to_bytes(e, s) == to_ne_bytes(e, s.temperature) \o to_ne_bytes(e, s.humidity)

\* f16 classification of a bit pattern (exponent bits all ones).
IsNaN(x) == (x \div 1024) % 32 = 31 /\ x % 1024 # 0
IsInf(x) == (x \div 1024) % 32 = 31 /\ x % 1024 = 0

\* An f32 value is written as the integer number of its 256ths (2^-8): every
\* multiple of 2^-8 between 4 and 64 is an f32.
F32(whole) == whole * 256

RECURSIVE Pow2(_)
Pow2(k) == IF k = 0 THEN 1 ELSE 2 * Pow2(k - 1)

\* The binary exponent of a value x (in 256ths), 4 <= x: 2^e <= x < 2^(e+1).
Exponent(x) == CHOOSE e \in 2..15 : F32(Pow2(e)) <= x /\ x < F32(Pow2(e + 1))

\* half::f16::from_f32 for a normal value x, 4 <= x < 65504: the nearest f16,
\* a tie going to the even significand; the result is the 16-bit pattern
\* (sign 0, 5 bits of exponent with bias 15, 10 bits of significand).
from_f32(x) ==
    LET e == Exponent(x)
        q == Pow2(e - 2)
        m == x \div q
        r == x % q
        up == 2 * r > q \/ (2 * r = q /\ m % 2 = 1)
    IN  (e + 15) * 1024 + (IF up THEN m + 1 ELSE m) - 1024

\* half::f16::to_f32 of the pattern of a normal f16 that is at least 4 (exact).
to_f32(bits) == ((bits % 1024) + 1024) * Pow2((bits \div 1024) - 15 - 2)

\* rng.gen_range(low..high): an f32 x with low <= x < high.  The values the
\* model draws: the lower bound, and values near the upper bound
\* (49.98046875, 49.99609375 and 19.99609375).
TemperatureSamples == {F32(40), F32(50) - 5, F32(50) - 1}
HumiditySamples == {F32(10), F32(20) - 1}

gen_range(low, high, samples) == {x \in samples : low <= x /\ x < high}

\* One draw of the two random values of Sensor::new and Sensor::update.
Draws ==
    {[t |-> t, h |-> h] :
        t \in gen_range(F32(40), F32(50), TemperatureSamples),
        h \in gen_range(F32(10), F32(20), HumiditySamples)}

\* Sensor::new() and Sensor::update(): both fields are assigned the f16 of a
\* fresh draw; d is the draw.
SensorNew(d) == [temperature |-> from_f32(d.t), humidity |-> from_f32(d.h)]

SensorUpdate(s, d) == [s EXCEPT !.temperature = from_f32(d.t), !.humidity = from_f32(d.h)]


\* ------------------------------------------------------------ frames, text
\* A continuation byte of a UTF-8 sequence.
IsCont(b) == b >= 128 /\ b <= 191

\* Length of the well-formed UTF-8 sequence at the head of s, or 0 if there is none.
Utf8Head(s) ==
    LET n == Len(s)
        b == s[1]
    IN  IF b <= 127 THEN 1
        ELSE IF b >= 194 /\ b <= 223
            THEN IF n >= 2 /\ IsCont(s[2]) THEN 2 ELSE 0
        ELSE IF b >= 224 /\ b <= 239
            THEN IF /\ n >= 3
                    /\ IsCont(s[2])
                    /\ IsCont(s[3])
                    /\ (b = 224 => s[2] >= 160)
                    /\ (b = 237 => s[2] <= 159)
                 THEN 3 ELSE 0
        ELSE IF b >= 240 /\ b <= 244
            THEN IF /\ n >= 4
                    /\ IsCont(s[2])
                    /\ IsCont(s[3])
                    /\ IsCont(s[4])
                    /\ (b = 240 => s[2] >= 144)
                    /\ (b = 244 => s[2] <= 143)
                 THEN 4 ELSE 0
        ELSE 0

\* String::from_utf8 accepts the frame (zmq recv_string returns Ok(Ok(String))).
RECURSIVE IsUtf8(_)
IsUtf8(s) ==
    IF s = <<>> THEN TRUE
    ELSE LET k == Utf8Head(s)
         IN  k > 0 /\ IsUtf8(SubSeq(s, k + 1, Len(s)))

\* message.chunks(4): consecutive slices of 4 bytes, the last one possibly shorter.
Chunks(m) ==
    [i \in 1..((Len(m) + 3) \div 4) |->
        SubSeq(m, 4 * (i - 1) + 1, IF 4 * i <= Len(m) THEN 4 * i ELSE Len(m))]

\* The acknowledgment payload: the string "R".
AckFrame == <<82>>

\* No value: a local that is not in scope, a field that is not set.
None == <<-1>>
NoSensor == [temperature |-> -1, humidity |-> -1]
NoController == [id |-> <<>>, sensors |-> <<>>]

Msg(frames, rid) == [frames |-> frames, rid |-> rid]

\* -------------------------------------------------------------- transport
\* Frontend ROUTER, receiving side: the identity of the sending connection is
\* put in front of the frames of its message.
RouterRecv(c, m) == Msg(<<cid[c]>> \o m.frames, m.rid)

\* Frontend ROUTER, sending side: the first frame names the connection the
\* message goes to and is removed; a message naming no connection is dropped.
RouterDest(m) == {c \in Clients : m.frames # <<>> /\ cid[c] = m.frames[1]}

RouterSend(m) == Msg(Tail(m.frames), m.rid)

\* Worker w has connected its socket to the backend.
Connected(w) == wpc[w] \notin {"unspawned", "connect"}

\* Worker w is connected and its thread has not ended.
Alive(w) == Connected(w) /\ wpc[w] # "dead"

\* Backend DEALER, sending side: round-robin among the connected workers.
\* The first connected worker after w in the rotation (w itself if it is the only one).
NextWorker(w, live) ==
    LET after == {v \in live : v > w}
    IN  IF after # {} THEN CHOOSE v \in after : \A u \in after : v <= u
        ELSE IF live # {} THEN CHOOSE v \in live : \A u \in live : v <= u
        ELSE w

\* zmq recv on the worker socket: the next frame of the message at the head of
\* the worker's pipe.
RecvFrame(w) == Head(inbox[w]).frames[1]

AfterRecvFrame(w) ==
    LET m == Head(inbox[w])
    IN  IF Len(m.frames) = 1 THEN Tail(inbox[w])
        ELSE <<Msg(Tail(m.frames), m.rid)>> \o Tail(inbox[w])

\* ------------------------------------------------------------------ broker
\* Mutant: the frontend does not put the identity of the connection in front
\* (a DEALER where the ROUTER is).
ProxyRequest_NoIdentity(c) ==
    /\ spc = "proxy"
    /\ uplink[c] # <<>>
    /\ Alive(rr)
    /\ uplink' = [uplink EXCEPT ![c] = Tail(@)]
    /\ inbox' = [inbox EXCEPT ![rr] = Append(@, Head(uplink[c]))]
    /\ rr' = NextWorker(rr, {w \in Workers : Alive(w)})
    /\ UNCHANGED <<endian, cid, codecVars, ctlVars, startVars, cpc, sent, consumed, requests, downlink>>
    /\ UNCHANGED <<wpc, identity, message, wrid, wout, outbox, stdout, handled>>

\* Mutant: a request that finds its worker occupied is dropped, not queued.
ProxyRequest_DropWhenBusy(c) ==
    /\ spc = "proxy"
    /\ uplink[c] # <<>>
    /\ Alive(rr)
    /\ uplink' = [uplink EXCEPT ![c] = Tail(@)]
    /\ inbox' = [inbox EXCEPT ![rr] =
            IF wpc[rr] = "recv_identity" /\ inbox[rr] = <<>>
            THEN Append(@, RouterRecv(c, Head(uplink[c])))
            ELSE @]
    /\ rr' = NextWorker(rr, {w \in Workers : Alive(w)})
    /\ UNCHANGED <<endian, cid, codecVars, ctlVars, startVars, cpc, sent, consumed, requests, downlink>>
    /\ UNCHANGED <<wpc, identity, message, wrid, wout, outbox, stdout, handled>>

\* Mutant: the backend hands every request to all connected workers (a
\* publisher where the DEALER is).
ProxyRequest_Fanout(c) ==
    /\ spc = "proxy"
    /\ uplink[c] # <<>>
    /\ Alive(rr)
    /\ uplink' = [uplink EXCEPT ![c] = Tail(@)]
    /\ inbox' = [w \in Workers |->
            IF Alive(w) THEN Append(inbox[w], RouterRecv(c, Head(uplink[c])))
            ELSE inbox[w]]
    /\ rr' = NextWorker(rr, {w \in Workers : Alive(w)})
    /\ UNCHANGED <<endian, cid, codecVars, ctlVars, startVars, cpc, sent, consumed, requests, downlink>>
    /\ UNCHANGED <<wpc, identity, message, wrid, wout, outbox, stdout, handled>>

\* Mutant: the backend keeps sending to the same worker (no rotation).
ProxyRequest_Sticky(c) ==
    /\ spc = "proxy"
    /\ uplink[c] # <<>>
    /\ Alive(rr)
    /\ uplink' = [uplink EXCEPT ![c] = Tail(@)]
    /\ inbox' = [inbox EXCEPT ![rr] = Append(@, RouterRecv(c, Head(uplink[c])))]
    /\ rr' = rr
    /\ UNCHANGED <<endian, cid, codecVars, ctlVars, startVars, cpc, sent, consumed, requests, downlink>>
    /\ UNCHANGED <<wpc, identity, message, wrid, wout, outbox, stdout, handled>>

\* zmq::proxy, frontend -> backend: one message of connection c is read from
\* the frontend and sent to the backend, which hands it to the next worker.
ProxyRequest(c) ==
    /\ spc = "proxy"
    /\ uplink[c] # <<>>
    /\ Alive(rr)
    /\ uplink' = [uplink EXCEPT ![c] = Tail(@)]
    /\ inbox' = [inbox EXCEPT ![rr] = Append(@, RouterRecv(c, Head(uplink[c])))]
    /\ rr' = NextWorker(rr, {w \in Workers : Alive(w)})
    /\ UNCHANGED <<endian, cid, codecVars, ctlVars, startVars, cpc, sent, consumed, requests, downlink>>
    /\ UNCHANGED <<wpc, identity, message, wrid, wout, outbox, stdout, handled>>

\* Mutant: the frontend delivers a reply to every connection, whatever its
\* first frame.
ProxyReply_Broadcast(w) ==
    /\ spc = "proxy"
    /\ outbox[w] # <<>>
    /\ outbox' = [outbox EXCEPT ![w] = Tail(@)]
    /\ downlink' = [c \in Clients |-> Append(downlink[c], RouterSend(Head(outbox[w])))]
    /\ UNCHANGED <<endian, cid, codecVars, ctlVars, startVars, cpc, sent, consumed, requests, uplink>>
    /\ UNCHANGED <<rr, inbox, wpc, identity, message, wrid, wout, stdout, handled>>

\* zmq::proxy, backend -> frontend: one reply of worker w is read from the
\* backend and sent to the frontend, which routes it by its first frame.
ProxyReply(w) ==
    /\ spc = "proxy"
    /\ outbox[w] # <<>>
    /\ outbox' = [outbox EXCEPT ![w] = Tail(@)]
    /\ LET m == Head(outbox[w])
       IN  downlink' = [c \in Clients |->
                IF c \in RouterDest(m) THEN Append(downlink[c], RouterSend(m))
                ELSE downlink[c]]
    /\ UNCHANGED <<endian, cid, codecVars, ctlVars, startVars, cpc, sent, consumed, requests, uplink>>
    /\ UNCHANGED <<rr, inbox, wpc, identity, message, wrid, wout, stdout, handled>>

\* Mutant: the request a worker holds when it panics is given to the next
\* worker (a retry).
Panic_Redispatch(w) ==
    LET others == {v \in Workers : Alive(v) /\ v # w}
        nxt == NextWorker(w, others)
    IN  /\ wpc' = [wpc EXCEPT ![w] = "dead"]
        /\ inbox' = [v \in Workers |->
                IF v = w THEN <<>>
                ELSE IF v = nxt /\ wpc[w] \in {"log", "send_identity", "send_message"}
                    THEN Append(inbox[v], Msg(<<identity[w], message[w]>>, wrid[w]))
                ELSE inbox[v]]
        /\ wout' = [wout EXCEPT ![w] = <<>>]
        /\ identity' = [identity EXCEPT ![w] = None]
        /\ message' = [message EXCEPT ![w] = None]
        /\ rr' = IF rr = w THEN nxt ELSE rr

\* A worker thread panics: the thread unwinds, its socket is dropped and closed.
\* Messages still in its pipe and a half-sent multipart message are lost; the
\* backend no longer distributes to it.
Panic(w) ==
    /\ wpc' = [wpc EXCEPT ![w] = "dead"]
    /\ inbox' = [inbox EXCEPT ![w] = <<>>]
    /\ wout' = [wout EXCEPT ![w] = <<>>]
    /\ identity' = [identity EXCEPT ![w] = None]
    /\ message' = [message EXCEPT ![w] = None]
    /\ rr' = IF rr = w
             THEN NextWorker(w, {v \in Workers : Alive(v) /\ v # w})
             ELSE rr

\* A receive or a send of worker w returns Err (the socket or the context
\* fails under it): .expect(..) panics.
TransportError(w) ==
    /\ wpc[w] \in {"recv_identity", "recv_message", "send_identity", "send_message"}
    /\ Panic(w)
    /\ UNCHANGED <<endian, cid, codecVars, ctlVars, startVars, clientVars>>
    /\ UNCHANGED <<wrid, outbox, stdout, handled>>

\* let identity = worker.recv_string(0).expect(..).unwrap();
WorkerRecvIdentity(w) ==
    /\ wpc[w] = "recv_identity"
    /\ inbox[w] # <<>>
    /\ IF IsUtf8(RecvFrame(w))
       THEN /\ identity' = [identity EXCEPT ![w] = RecvFrame(w)]
            /\ wrid' = [wrid EXCEPT ![w] = Head(inbox[w]).rid]
            /\ inbox' = [inbox EXCEPT ![w] = AfterRecvFrame(w)]
            /\ wpc' = [wpc EXCEPT ![w] = "recv_message"]
            /\ UNCHANGED <<message, wout, rr>>
       ELSE /\ Panic(w)
            /\ wrid' = [wrid EXCEPT ![w] = Head(inbox[w]).rid]
    /\ UNCHANGED <<endian, cid, codecVars, ctlVars, startVars, clientVars, outbox, stdout, handled>>

\* let message = worker.recv_bytes(0).expect(..);
WorkerRecvMessage(w) ==
    /\ wpc[w] = "recv_message"
    /\ inbox[w] # <<>>
    /\ message' = [message EXCEPT ![w] = RecvFrame(w)]
    /\ inbox' = [inbox EXCEPT ![w] = AfterRecvFrame(w)]
    /\ handled' = handled \cup {<<wrid[w], w>>}
    /\ wpc' = [wpc EXCEPT ![w] = "log"]
    /\ UNCHANGED <<endian, cid, codecVars, ctlVars, startVars, clientVars>>
    /\ UNCHANGED <<rr, identity, wrid, wout, outbox, stdout>>

\* Mutant: the record lines are numbered from 1.
LogEntry_FromOne(e, id, m) ==
    [header |-> id,
     lines |-> [i \in DOMAIN Chunks(m) |->
                    [index |-> i, sensor |-> SensorFrom(e, Chunks(m)[i])]]]

\* The log entry of one request: the identity, then for every chunk a line
\* with its number (enumerate() counts from 0) and the record decoded from it.
LogEntry(e, id, m) ==
    [header |-> id,
     lines |-> [i \in DOMAIN Chunks(m) |->
                    [index |-> i - 1, sensor |-> SensorFrom(e, Chunks(m)[i])]]]

\* Mutant: the entry is built but not printed before the sends.
WorkerLog_Silent(w) ==
    /\ wpc[w] = "log"
    /\ IF \E i \in DOMAIN Chunks(message[w]) : SensorFromPanics(Chunks(message[w])[i])
       THEN Panic(w)
       ELSE /\ wpc' = [wpc EXCEPT ![w] = "send_identity"]
            /\ UNCHANGED <<rr, inbox, identity, message, wout>>
    /\ UNCHANGED stdout
    /\ UNCHANGED <<endian, cid, codecVars, ctlVars, startVars, clientVars, wrid, outbox, handled>>

\* Mutant: a short last chunk is passed over (message.chunks_exact(4)).
WorkerLog_Lenient(w) ==
    /\ wpc[w] = "log"
    /\ LET m == SubSeq(message[w], 1, 4 * (Len(message[w]) \div 4))
       IN  stdout' = stdout \cup
                {[rid |-> wrid[w], log |-> LogEntry(endian, identity[w], m)]}
    /\ wpc' = [wpc EXCEPT ![w] = "send_identity"]
    /\ UNCHANGED <<rr, inbox, identity, message, wout>>
    /\ UNCHANGED <<endian, cid, codecVars, ctlVars, startVars, clientVars, wrid, outbox, handled>>

\* let mut log = ..; for (i, chunk) in message.chunks(4).enumerate() {..}; println!
WorkerLog(w) ==
    /\ wpc[w] = "log"
    /\ IF \E i \in DOMAIN Chunks(message[w]) : SensorFromPanics(Chunks(message[w])[i])
       THEN /\ Panic(w)
            /\ UNCHANGED stdout
       ELSE /\ stdout' = stdout \cup
                    {[rid |-> wrid[w], log |-> LogEntry(endian, identity[w], message[w])]}
            /\ wpc' = [wpc EXCEPT ![w] = "send_identity"]
            /\ UNCHANGED <<rr, inbox, identity, message, wout>>
    /\ UNCHANGED <<endian, cid, codecVars, ctlVars, startVars, clientVars, wrid, outbox, handled>>

\* Mutant: the payload is sent where the identity belongs (worker.send(&message, SNDMORE)).
WorkerSendIdentity_Payload(w) ==
    /\ wpc[w] = "send_identity"
    /\ wout' = [wout EXCEPT ![w] = Append(@, message[w])]
    /\ wpc' = [wpc EXCEPT ![w] = "send_message"]
    /\ UNCHANGED <<endian, cid, codecVars, ctlVars, startVars, clientVars>>
    /\ UNCHANGED <<rr, inbox, identity, message, wrid, outbox, stdout, handled>>

\* worker.send(&identity, zmq::SNDMORE)
WorkerSendIdentity(w) ==
    /\ wpc[w] = "send_identity"
    /\ wout' = [wout EXCEPT ![w] = Append(@, identity[w])]
    /\ wpc' = [wpc EXCEPT ![w] = "send_message"]
    /\ UNCHANGED <<endian, cid, codecVars, ctlVars, startVars, clientVars>>
    /\ UNCHANGED <<rr, inbox, identity, message, wrid, outbox, stdout, handled>>

\* Mutant: the worker answers with the payload it received (worker.send(message, 0)).
WorkerSendMessage_Echo(w) ==
    /\ wpc[w] = "send_message"
    /\ outbox' = [outbox EXCEPT ![w] = Append(@, Msg(Append(wout[w], message[w]), wrid[w]))]
    /\ wout' = [wout EXCEPT ![w] = <<>>]
    /\ identity' = [identity EXCEPT ![w] = None]
    /\ message' = [message EXCEPT ![w] = None]
    /\ wrid' = [wrid EXCEPT ![w] = None]
    /\ wpc' = [wpc EXCEPT ![w] = "recv_identity"]
    /\ UNCHANGED <<endian, cid, codecVars, ctlVars, startVars, clientVars>>
    /\ UNCHANGED <<rr, inbox, stdout, handled>>

\* Mutant: identity and message outlive the loop body (they are declared
\* before the loop).
WorkerSendMessage_Keeps(w) ==
    /\ wpc[w] = "send_message"
    /\ outbox' = [outbox EXCEPT ![w] = Append(@, Msg(Append(wout[w], AckFrame), wrid[w]))]
    /\ wout' = [wout EXCEPT ![w] = <<>>]
    /\ wrid' = [wrid EXCEPT ![w] = None]
    /\ wpc' = [wpc EXCEPT ![w] = "recv_identity"]
    /\ UNCHANGED <<endian, cid, codecVars, ctlVars, startVars, clientVars>>
    /\ UNCHANGED <<rr, inbox, identity, message, stdout, handled>>

\* worker.send("R", 0): the final frame; the multipart message leaves the
\* socket as a whole, and the loop body ends (its locals are dropped).
WorkerSendMessage(w) ==
    /\ wpc[w] = "send_message"
    /\ outbox' = [outbox EXCEPT ![w] = Append(@, Msg(Append(wout[w], AckFrame), wrid[w]))]
    /\ wout' = [wout EXCEPT ![w] = <<>>]
    /\ identity' = [identity EXCEPT ![w] = None]
    /\ message' = [message EXCEPT ![w] = None]
    /\ wrid' = [wrid EXCEPT ![w] = None]
    /\ wpc' = [wpc EXCEPT ![w] = "recv_identity"]
    /\ UNCHANGED <<endian, cid, codecVars, ctlVars, startVars, clientVars>>
    /\ UNCHANGED <<rr, inbox, stdout, handled>>

server_worker(w) ==
    \/ WorkerRecvIdentity(w)
    \/ WorkerRecvMessage(w)
    \/ WorkerLog(w)
    \/ WorkerSendIdentity(w)
    \/ WorkerSendMessage(w)

server_task ==
    \/ \E c \in Clients : ProxyRequest(c)
    \/ \E w \in Workers : ProxyReply(w)

\* ----------------------------------------------------------------- clients
\* Controller::sensor_data: every sensor is resampled, then the 4-byte
\* encodings are concatenated in zone order.  zones is the resampled readings.
RECURSIVE Concat(_)
Concat(ss) == IF ss = <<>> THEN <<>> ELSE Head(ss) \o Concat(Tail(ss))

\* Mutant: the last byte of the concatenation is left out.
sensor_data_Truncated(e, zones) ==
    LET all == Concat([i \in DOMAIN zones |-> to_bytes(e, zones[i])])
    IN  SubSeq(all, 1, Len(all) - 1)

\* Mutant: the encodings are concatenated from the last zone to the first.
sensor_data_Reversed(e, zones) ==
    Concat([i \in DOMAIN zones |-> to_bytes(e, zones[Len(zones) + 1 - i])])

sensor_data(e, zones) == Concat([i \in DOMAIN zones |-> to_bytes(e, zones[i])])

\* Readings Sensor::update can produce, as f16 bit patterns: 40.0 and the
\* largest f16 below 50.0; 10.0 and the largest f16 below 20.0.
SampleReadings ==
    {[temperature |-> 20736, humidity |-> 18688],
     [temperature |-> 21055, humidity |-> 19711]}

\* The resampled zones the agents of the model send: the two sample readings
\* in alternation.
SampleZones ==
    {[i \in 1..NumZones |->
        IF i % 2 = 1 THEN [temperature |-> 20736, humidity |-> 18688]
                     ELSE [temperature |-> 21055, humidity |-> 19711]]}

\* Requests sent whose reply has not reached the sender's socket.
RECURSIVE SumOver(_, _)
SumOver(f, S) ==
    IF S = {} THEN 0
    ELSE LET x == CHOOSE y \in S : TRUE IN f[x] + SumOver(f, S \ {x})

Delivered(c) == Len(downlink[c]) + consumed[c]

InFlight == SumOver([c \in Clients |-> sent[c] - Delivered(c)], Clients)

\* A request leaves a client socket as a single frame: the payload.
Submit(c, payload, limit) ==
    /\ sent[c] < limit
    /\ sent' = [sent EXCEPT ![c] = @ + 1]
    /\ uplink' = [uplink EXCEPT ![c] = Append(@, Msg(<<payload>>, <<c, sent[c] + 1>>))]
    /\ requests' = requests @@ (<<c, sent[c] + 1>> :> payload)

\* Mutant: the client receives without polling first, so it waits for a reply.
ClientPoll_Blocking(c) ==
    /\ cpc[c] = "poll"
    /\ downlink[c] # <<>>
    /\ downlink' = [downlink EXCEPT ![c] = Tail(@)]
    /\ consumed' = [consumed EXCEPT ![c] = @ + 1]
    /\ cpc' = [cpc EXCEPT ![c] = "send"]
    /\ UNCHANGED <<endian, cid, codecVars, ctlVars, startVars, sent, requests, uplink, brokerVars>>

\* if client.poll(zmq::POLLIN, 10) > 0 { recv_string; println! }
ClientPoll(c) ==
    /\ cpc[c] = "poll"
    /\ IF downlink[c] # <<>>
       THEN /\ downlink' = [downlink EXCEPT ![c] = Tail(@)]
            /\ IF IsUtf8(Head(downlink[c]).frames[1])
               THEN /\ consumed' = [consumed EXCEPT ![c] = @ + 1]
                    /\ cpc' = [cpc EXCEPT ![c] = "send"]
               ELSE /\ cpc' = [cpc EXCEPT ![c] = "dead"]
                    /\ UNCHANGED consumed
       ELSE /\ cpc' = [cpc EXCEPT ![c] = "send"]
            /\ UNCHANGED <<downlink, consumed>>
    /\ UNCHANGED <<endian, cid, codecVars, ctlVars, startVars, sent, requests, uplink, brokerVars>>

\* Mutant: the send is repeated without going through the sleep and the poll.
ClientSend_NoPoll(c) ==
    /\ cpc[c] = "send"
    /\ \E zones \in SampleZones : Submit(c, sensor_data(endian, zones), MaxSends)
    /\ cpc' = [cpc EXCEPT ![c] = "send"]
    /\ UNCHANGED <<endian, cid, codecVars, ctlVars, startVars, consumed, downlink, brokerVars>>

\* client.send(controller.sensor_data(), 0)
ClientSend(c) ==
    /\ cpc[c] = "send"
    /\ \E zones \in SampleZones : Submit(c, sensor_data(endian, zones), MaxSends)
    /\ cpc' = [cpc EXCEPT ![c] = "sleep"]
    /\ UNCHANGED <<endian, cid, codecVars, ctlVars, startVars, consumed, downlink, brokerVars>>

\* thread::sleep(time::Duration::from_secs(5))
ClientSleep(c) ==
    /\ cpc[c] = "sleep"
    /\ cpc' = [cpc EXCEPT ![c] = "poll"]
    /\ UNCHANGED <<endian, cid, codecVars, ctlVars, startVars, sent, consumed, requests, uplink, downlink>>
    /\ UNCHANGED brokerVars

controller_client_task(c) ==
    \/ ClientPoll(c)
    \/ ClientSend(c)
    \/ ClientSleep(c)

\* Any peer may connect to the frontend bound on tcp://*:5570: it chooses its
\* identity and the bytes it sends, and keeps no cadence.
\* One record of 4 bytes, a payload that ends in a short record, and the
\* empty payload.
GoodPayload == <<0, 60, 0, 73>>
ShortPayload == <<0, 60, 0>>
EmptyPayload == <<>>
PeerPayloads == {GoodPayload, ShortPayload, EmptyPayload}

\* Further payloads: 8 zones of zero bytes; the same less its last byte; two
\* different records; one record followed by a short one.
ZeroPayload == [i \in 1..(4 * NumZones) |-> 0]
TruncatedPayload == SubSeq(ZeroPayload, 1, 4 * NumZones - 1)
TwoRecords == <<0, 60, 0, 73, 1, 2, 3, 4>>
TrailingShort == GoodPayload \o ShortPayload
LogPayloads ==
    {EmptyPayload, GoodPayload, ShortPayload, ZeroPayload, TruncatedPayload,
     TwoRecords, TrailingShort}

PeerSend(c) ==
    /\ \E p \in PeerPayloads : Submit(c, p, MaxSends)
    /\ UNCHANGED <<endian, cid, codecVars, ctlVars, startVars, cpc, consumed, downlink, brokerVars>>

PeerRecv(c) ==
    /\ downlink[c] # <<>>
    /\ downlink' = [downlink EXCEPT ![c] = Tail(@)]
    /\ consumed' = [consumed EXCEPT ![c] = @ + 1]
    /\ UNCHANGED <<endian, cid, codecVars, ctlVars, startVars, cpc, sent, requests, uplink, brokerVars>>

\* ---------------------------------------------------------- specifications
\* Identities a peer may present: "a", a byte string that is not UTF-8, and
\* "e-acute" (two bytes).
PeerIdentities == <<<<97>>, <<255>>, <<195, 169>>>>

\* nanoid!() tokens, shortened: distinct texts over the URL-safe alphabet
\* ("A_", "B_", ...).
AgentIdentity(c) == <<64 + c, 95>>

\* Distinct identities for the connections, drawn from pool.
IdChoices(pool) ==
    {[c \in Clients |-> pool[f[c]]] :
        f \in {g \in [Clients -> DOMAIN pool] : \A a, b \in Clients : a < b => g[a] < g[b]}}

InitCodecIdle ==
    /\ input = <<>>
    /\ decoded = NoSensor
    /\ output = <<>>
    /\ cstep = "idle"

\* No Controller is under test.
InitCtlIdle ==
    /\ controller = NoController
    /\ data = <<>>
    /\ calls = 0

\* server_task has bound both endpoints, spawned the workers and entered
\* zmq::proxy.
InitStarted ==
    /\ spc = "proxy"
    /\ bound = {"frontend", "backend"}

InitBroker ==
    /\ rr = 1
    /\ inbox = [w \in Workers |-> <<>>]
    /\ wpc = [w \in Workers |-> "recv_identity"]
    /\ identity = [w \in Workers |-> None]
    /\ message = [w \in Workers |-> None]
    /\ wrid = [w \in Workers |-> None]
    /\ wout = [w \in Workers |-> <<>>]
    /\ outbox = [w \in Workers |-> <<>>]
    /\ stdout = {}
    /\ handled = {}

InitClients ==
    /\ cpc = [c \in Clients |-> "poll"]
    /\ sent = [c \in Clients |-> 0]
    /\ consumed = [c \in Clients |-> 0]
    /\ requests = <<>>
    /\ uplink = [c \in Clients |-> <<>>]
    /\ downlink = [c \in Clients |-> <<>>]

\* The broker with arbitrary peers connected to its frontend.
Init ==
    /\ endian = "little"
    /\ cid \in IdChoices(PeerIdentities)
    /\ InitCodecIdle
    /\ InitCtlIdle
    /\ InitStarted
    /\ InitClients
    /\ InitBroker

Next ==
    \/ \E c \in Clients : PeerSend(c)
    \/ \E c \in Clients : PeerRecv(c)
    \/ server_task
    \/ \E w \in Workers : server_worker(w)

Spec == Init /\ [][Next]_vars

\* The broker with the reference client agents.
InitRef ==
    /\ endian = "little"
    /\ cid = [c \in Clients |-> AgentIdentity(c)]
    /\ InitCodecIdle
    /\ InitCtlIdle
    /\ InitStarted
    /\ InitClients
    /\ InitBroker

NextRef ==
    \/ \E c \in Clients : controller_client_task(c)
    \/ server_task
    \/ \E w \in Workers : server_worker(w)

SpecRef == InitRef /\ [][NextRef]_vars

\* The broker under load: connection 1 issues a burst of requests with
\* well-formed payloads and reads no reply.
LoadSend ==
    /\ Submit(1, GoodPayload, MaxBurst)
    /\ UNCHANGED <<endian, cid, codecVars, ctlVars, startVars, cpc, consumed, downlink, brokerVars>>

InitLoad ==
    /\ endian = "little"
    /\ cid \in {f \in IdChoices(PeerIdentities) :
                    f[NumClients] = PeerIdentities[Len(PeerIdentities)]}
    /\ InitCodecIdle
    /\ InitCtlIdle
    /\ InitStarted
    /\ InitClients
    /\ InitBroker

NextLoad ==
    \/ LoadSend
    \/ server_task
    \/ \E w \in Workers : server_worker(w)

\* The proxy thread serves both of its sockets in turn, and every worker is a
\* thread of its own: none of them is postponed forever.
Fairness ==
    /\ \A c \in Clients : WF_vars(ProxyRequest(c))
    /\ \A w \in Workers : WF_vars(ProxyReply(w))
    /\ \A w \in Workers : WF_vars(server_worker(w))

SpecLoad == InitLoad /\ [][NextLoad]_vars /\ Fairness

\* The same sender keeping fewer than NumWorkers requests in flight.
LightSend ==
    /\ InFlight < NumWorkers - 1
    /\ LoadSend

NextLight ==
    \/ LightSend
    \/ server_task
    \/ \E w \in Workers : server_worker(w)

SpecLight == InitLoad /\ [][NextLight]_vars /\ Fairness

\* The broker from the start of server_task, with one peer that sends
\* well-formed requests (a peer may connect and send before the bind).
StartSend ==
    /\ Submit(1, GoodPayload, MaxSends)
    /\ UNCHANGED <<endian, cid, codecVars, ctlVars, startVars, cpc, consumed, downlink, brokerVars>>

\* frontend.bind("tcp://*:5570").expect(..): a failure panics the main thread.
BindFrontend ==
    /\ spc = "bind_frontend"
    /\ \/ spc' = "bind_backend" /\ bound' = bound \cup {"frontend"}
       \/ spc' = "aborted" /\ UNCHANGED bound
    /\ UNCHANGED <<endian, cid, codecVars, ctlVars, clientVars, brokerVars>>

\* backend.bind("inproc://backend").expect(..)
BindBackend ==
    /\ spc = "bind_backend"
    /\ \/ spc' = "spawn" /\ bound' = bound \cup {"backend"}
       \/ spc' = "aborted" /\ UNCHANGED bound
    /\ UNCHANGED <<endian, cid, codecVars, ctlVars, clientVars, brokerVars>>

\* Mutant: the workers are spawned before the backend is bound.
SpawnWorker_Early(w) ==
    /\ spc \in {"bind_backend", "spawn"}
    /\ wpc[w] = "unspawned"
    /\ \A v \in Workers : v < w => wpc[v] # "unspawned"
    /\ wpc' = [wpc EXCEPT ![w] = "connect"]
    /\ UNCHANGED <<endian, cid, codecVars, ctlVars, startVars, clientVars>>
    /\ UNCHANGED <<rr, inbox, identity, message, wrid, wout, outbox, stdout, handled>>

\* for _ in 0..5 { thread::spawn(move || server_worker(&ctx)); }: one iteration.
SpawnWorker(w) ==
    /\ spc = "spawn"
    /\ wpc[w] = "unspawned"
    /\ \A v \in Workers : v < w => wpc[v] # "unspawned"
    /\ wpc' = [wpc EXCEPT ![w] = "connect"]
    /\ UNCHANGED <<endian, cid, codecVars, ctlVars, startVars, clientVars>>
    /\ UNCHANGED <<rr, inbox, identity, message, wrid, wout, outbox, stdout, handled>>

\* zmq::proxy(&frontend, &backend) is called when the loop has spawned all workers.
EnterProxy ==
    /\ spc = "spawn"
    /\ \A w \in Workers : wpc[w] # "unspawned"
    /\ spc' = "proxy"
    /\ UNCHANGED <<endian, cid, codecVars, ctlVars, bound, clientVars, brokerVars>>

\* server_worker: worker.connect("inproc://backend"); the backend takes the
\* worker into its rotation (in the model the rotation goes by worker
\* number among the connected workers).
WorkerConnect(w) ==
    /\ wpc[w] = "connect"
    /\ wpc' = [wpc EXCEPT ![w] = "recv_identity"]
    /\ rr' = IF Alive(rr) THEN rr ELSE w
    /\ UNCHANGED <<endian, cid, codecVars, ctlVars, startVars, clientVars>>
    /\ UNCHANGED <<inbox, identity, message, wrid, wout, outbox, stdout, handled>>

InitStart ==
    /\ endian = "little"
    /\ cid = [c \in Clients |-> AgentIdentity(c)]
    /\ InitCodecIdle
    /\ InitCtlIdle
    /\ InitClients
    /\ spc = "bind_frontend"
    /\ bound = {}
    /\ rr = 1
    /\ inbox = [w \in Workers |-> <<>>]
    /\ wpc = [w \in Workers |-> "unspawned"]
    /\ identity = [w \in Workers |-> None]
    /\ message = [w \in Workers |-> None]
    /\ wrid = [w \in Workers |-> None]
    /\ wout = [w \in Workers |-> <<>>]
    /\ outbox = [w \in Workers |-> <<>>]
    /\ stdout = {}
    /\ handled = {}

NextStart ==
    \/ StartSend
    \/ BindFrontend
    \/ BindBackend
    \/ \E w \in Workers : SpawnWorker(w)
    \/ EnterProxy
    \/ \E w \in Workers : WorkerConnect(w)
    \/ server_task
    \/ \E w \in Workers : server_worker(w)

SpecStart == InitStart /\ [][NextStart]_vars

\* The broker with workers whose transport may fail, and one peer that sends
\* payloads of whole records and payloads with a short record, and reads no
\* reply.
FaultSend ==
    /\ \E p \in {GoodPayload, ShortPayload} : Submit(1, p, MaxSends)
    /\ UNCHANGED <<endian, cid, codecVars, ctlVars, startVars, cpc, consumed, downlink, brokerVars>>

NextFault ==
    \/ FaultSend
    \/ server_task
    \/ \E w \in Workers : server_worker(w)
    \/ \E w \in Workers : TransportError(w)

SpecFault == InitLoad /\ [][NextFault]_vars /\ Fairness

\* The broker with more requests than workers from two connections, so that
\* the rotation comes back to a worker with a request of another identity
\* and another payload: connection 1 sends a burst of one record each,
\* the last connection a single request of two records.
TurnSend(c) ==
    /\ \/ c = 1 /\ Submit(c, GoodPayload, NumWorkers)
       \/ c = NumClients /\ Submit(c, TwoRecords, 1)
    /\ UNCHANGED <<endian, cid, codecVars, ctlVars, startVars, cpc, consumed, downlink, brokerVars>>

NextTurn ==
    \/ \E c \in Clients : TurnSend(c)
    \/ server_task
    \/ \E w \in Workers : server_worker(w)

SpecTurn == InitRef /\ [][NextTurn]_vars

\* The broker with one peer that sends payloads of various lengths.
PayloadSend ==
    /\ \E p \in LogPayloads : Submit(1, p, MaxSends)
    /\ UNCHANGED <<endian, cid, codecVars, ctlVars, startVars, cpc, consumed, downlink, brokerVars>>

InitPayload ==
    /\ endian \in {"little", "big"}
    /\ cid \in {f \in IdChoices(PeerIdentities) :
                    f[NumClients] = PeerIdentities[Len(PeerIdentities)]}
    /\ InitCodecIdle
    /\ InitCtlIdle
    /\ InitStarted
    /\ InitClients
    /\ InitBroker

NextPayload ==
    \/ PayloadSend
    \/ \E c \in Clients : PeerRecv(c)
    \/ server_task
    \/ \E w \in Workers : server_worker(w)

SpecPayload == InitPayload /\ [][NextPayload]_vars

\* ------------------------------------------------------------ codec harness
\* Bytes the harness builds its inputs from: they give zero, 1.0, the
\* infinities and NaNs in either byte order.
ByteSamples == {0, 1, 60, 124, 126, 255}

InitCodec ==
    /\ endian \in {"little", "big"}
    /\ input \in [1..4 -> ByteSamples]
    /\ decoded = NoSensor
    /\ output = <<>>
    /\ cstep = "start"
    /\ cid = [c \in Clients |-> AgentIdentity(c)]
    /\ InitCtlIdle
    /\ InitStarted
    /\ InitClients
    /\ InitBroker

\* Sensor::from(&input[..])
Decode ==
    /\ cstep = "start"
    /\ ~SensorFromPanics(input)
    /\ decoded' = SensorFrom(endian, input)
    /\ cstep' = "decoded"
    /\ UNCHANGED <<endian, cid, input, output, ctlVars, startVars, clientVars, brokerVars>>

\* decoded.to_bytes()
Encode ==
    /\ cstep = "decoded"
    /\ output' = to_bytes(endian, decoded)
    /\ cstep' = "encoded"
    /\ UNCHANGED <<endian, cid, input, decoded, ctlVars, startVars, clientVars, brokerVars>>

NextCodec == Decode \/ Encode

SpecCodec == InitCodec /\ [][NextCodec]_vars

\* ------------------------------------------------------ controller harness
\* Zones that are given the first of two draws; the other zones get the second.
ZonePatterns == {{}, {1}, {i \in 1..NumZones : i % 2 = 1}}

\* The draws of one pass over the zones.
ZoneDraws ==
    {[i \in 1..NumZones |-> IF i \in S THEN a ELSE b] :
        a \in Draws, b \in Draws, S \in ZonePatterns}

InitCtl ==
    /\ endian \in {"little", "big"}
    /\ cid = [c \in Clients |-> AgentIdentity(c)]
    /\ InitCodecIdle
    /\ InitCtlIdle
    /\ InitStarted
    /\ InitClients
    /\ InitBroker

\* Controller::new(): 8 times sensors.push(Sensor::new()); id: nanoid!()
ControllerNew ==
    /\ controller = NoController
    /\ \E c \in Clients, draws \in ZoneDraws :
        controller' = [id |-> AgentIdentity(c),
                       sensors |-> [i \in 1..NumZones |-> SensorNew(draws[i])]]
    /\ UNCHANGED <<endian, cid, codecVars, data, calls, startVars, clientVars, brokerVars>>

\* controller.sensor_data(): every sensor is updated in place, in zone order,
\* and the encodings of the updated sensors are concatenated.
SensorData ==
    /\ controller # NoController
    /\ calls < MaxCalls
    /\ \E draws \in ZoneDraws :
        LET zones == [i \in DOMAIN controller.sensors |->
                        SensorUpdate(controller.sensors[i], draws[i])]
        IN  /\ controller' = [controller EXCEPT !.sensors = zones]
            /\ data' = sensor_data(endian, zones)
    /\ calls' = calls + 1
    /\ UNCHANGED <<endian, cid, codecVars, startVars, clientVars, brokerVars>>

NextCtl == ControllerNew \/ SensorData

SpecCtl == InitCtl /\ [][NextCtl]_vars

\* ================================================================== claims
Busy(w) == wpc[w] \in {"recv_message", "log", "send_identity", "send_message"}

\* The worker holds both frames of the request it is processing.
Holding(w) == wpc[w] \in {"log", "send_identity", "send_message"}

Origin(m) == m.rid[1]

C2_WorkerReply ==
    [][\A w \in Workers :
        /\ outbox'[w] # outbox[w] /\ Len(outbox'[w]) >= Len(outbox[w])
            => /\ wpc[w] = "send_message"
               /\ wpc'[w] = "recv_identity"
               /\ outbox'[w] = Append(outbox[w], Msg(<<identity[w], AckFrame>>, wrid[w]))
        /\ wpc[w] # "recv_identity" /\ wpc'[w] = "recv_identity"
            => /\ wpc[w] = "send_message"
               /\ Len(outbox'[w]) = Len(outbox[w]) + 1
        /\ Busy(w) /\ Busy(w)' => identity'[w] = identity[w]
        /\ wout'[w] \in {<<>>, <<identity[w]>>}
      ]_vars

\* C2 witness: replies to requests with different payloads are in workers'
\* pipes, each the two frames (identity of the request, "R").
C2_Witness ==
    \E v, w \in Workers :
        /\ outbox[v] # <<>> /\ outbox[w] # <<>>
        /\ requests[Head(outbox[v]).rid] = GoodPayload
        /\ requests[Head(outbox[w]).rid] = EmptyPayload
        /\ Head(outbox[v]).frames = <<cid[Origin(Head(outbox[v]))], AckFrame>>
        /\ Head(outbox[w]).frames = <<cid[Origin(Head(outbox[w]))], AckFrame>>

\* The frames of request rid as the frontend hands them to the backend.
Relayed(rid) == <<cid[rid[1]], requests[rid]>>

\* C3: what a worker has received for a request is the identity of the
\* sending connection, read first, and the very payload that connection sent;
\* every request on its way to a worker is those two frames, identity first
\* (less the frames the worker has already read); and the payload a
\* connection gets is the one frame "R" the worker sent.
C3_PureRelay ==
    /\ \A w \in Workers :
        /\ Busy(w) => identity[w] = cid[wrid[w][1]]
        /\ Holding(w) => message[w] = requests[wrid[w]]
        /\ \A i \in DOMAIN inbox[w] :
            IF i = 1 /\ wpc[w] = "recv_message"
            THEN inbox[w][i].frames = <<requests[inbox[w][i].rid]>>
            ELSE inbox[w][i].frames = Relayed(inbox[w][i].rid)
    /\ \A c \in Clients :
        /\ \A i \in DOMAIN uplink[c] : uplink[c][i].frames = <<requests[uplink[c][i].rid]>>
        /\ \A i \in DOMAIN downlink[c] : downlink[c][i].frames = <<AckFrame>>

\* C3 witness: a worker holds the 4-byte payload of a connection with a
\* two-byte identity while another request waits in a worker's pipe.
C3_Witness ==
    \E w, v \in Workers :
        /\ Holding(w)
        /\ message[w] = GoodPayload
        /\ Len(identity[w]) = 2
        /\ inbox[v] # <<>>

\* Number of places request rid is at: pipes to workers, workers, pipes from
\* workers, pipes to connections.
CountIn(q, rid) == Cardinality({i \in DOMAIN q : q[i].rid = rid})

Copies(rid) ==
    SumOver([w \in Workers |->
                CountIn(inbox[w], rid) + CountIn(outbox[w], rid)
                + (IF Holding(w) /\ wrid[w] = rid THEN 1 ELSE 0)], Workers)
    + SumOver([c \in Clients |-> CountIn(downlink[c], rid)], Clients)

\* C4: no request is received by two workers; a worker that has read the
\* identity frame of a request finds the payload frame of the same request
\* next in its own pipe; a request is never at two places of the broker at
\* once; a connection has been delivered at most as many replies as it has
\* sent requests.
C4_AtMostOnce ==
    /\ \A g, h \in handled : g[1] = h[1] => g[2] = h[2]
    /\ \A w \in Workers : wpc[w] = "recv_message" =>
            /\ inbox[w] # <<>>
            /\ Head(inbox[w]).rid = wrid[w]
            /\ Len(Head(inbox[w]).frames) = 1
    /\ \A rid \in DOMAIN requests : Copies(rid) <= 1
    /\ \A c \in Clients : Delivered(c) <= sent[c]

\* C4 witness: a connection has got a reply to each of its MaxSends requests,
\* which were received by different workers.
C4_Witness ==
    \E c \in Clients :
        /\ sent[c] = MaxSends
        /\ Delivered(c) = MaxSends
        /\ \E g, h \in handled : g[1][1] = c /\ h[1][1] = c /\ g[2] # h[2]

\* C7: a worker ends only on a payload with a short last record: whatever the
\* identity of a request, the worker goes on to process it.
C7_IdentityOpaque ==
    \A w \in Workers :
        wpc[w] = "dead" => Len(requests[wrid[w]]) % 4 # 0

\* C8 as stated: a client has received the acknowledgment of every earlier
\* request when it sends, so an identity has at most one request not yet
\* acknowledged to it.
C8_OneInFlight == \A c \in Clients : sent[c] - consumed[c] <= 1

\* C8 as amended: a client sends only from the send position of its loop,
\* one request at a time; that position is entered only by the receive check,
\* which takes one reply off the socket exactly if one is there; and the
\* receive check is entered only from the sleep that follows a send.
C8_PollBeforeSend ==
    [][\A c \in Clients :
        /\ sent'[c] # sent[c]
            => cpc[c] = "send" /\ cpc'[c] = "sleep" /\ sent'[c] = sent[c] + 1
        /\ cpc[c] # "send" /\ cpc'[c] = "send"
            => /\ cpc[c] = "poll"
               /\ consumed'[c] = consumed[c] + (IF downlink[c] # <<>> THEN 1 ELSE 0)
        /\ cpc[c] # "poll" /\ cpc'[c] = "poll" => cpc[c] = "sleep"
      ]_vars

\* C8 witness: a client sleeps after its second send while neither of its two
\* requests has been answered to it.
C8_Witness ==
    \E c \in Clients : cpc[c] = "sleep" /\ sent[c] = 2 /\ Delivered(c) = 0

\* The counts of a client's loop: it has consumed no more replies than it has
\* sent requests, none before its first send, and after its n-th send at most
\* n - 1; the receive check can always be taken, with or without a reply
\* pending, and so can the send that follows it.
C9_CycleInv ==
    \A c \in Clients :
        /\ consumed[c] <= sent[c]
        /\ sent[c] = 0 => consumed[c] = 0
        /\ cpc[c] \in {"sleep", "poll"} /\ sent[c] > 0 => consumed[c] <= sent[c] - 1
        /\ cpc[c] = "poll" => ENABLED ClientPoll(c)
        /\ cpc[c] = "send" /\ sent[c] < MaxSends => ENABLED ClientSend(c)

\* The steps of a client's loop: a step consumes at most one reply and only
\* from the receive check, which leads to the send; leaving the send position
\* sends exactly one request.
C9_CycleStep ==
    \A c \in Clients :
        /\ consumed'[c] # consumed[c]
            => cpc[c] = "poll" /\ consumed'[c] = consumed[c] + 1
        /\ cpc[c] = "poll" /\ cpc'[c] # "poll" => cpc'[c] = "send"
        /\ cpc[c] = "send" /\ cpc'[c] # "send"
            => cpc'[c] = "sleep" /\ sent'[c] = sent[c] + 1

\* C9: in every state the counts and the enabledness of C9_CycleInv hold, and
\* every step of a client keeps the order receive check, send, sleep of
\* C9_CycleStep, consuming at most one reply and sending exactly one request.
C9_ClientCycle == []C9_CycleInv /\ [][C9_CycleStep]_vars

\* C9 witness: a client is about to send its second request after a receive
\* check that found no reply, and another client has consumed a reply.
C9_Witness ==
    \E c, d \in Clients :
        /\ cpc[c] = "send" /\ sent[c] = 1 /\ consumed[c] = 0
        /\ consumed[d] = 1

\* C10: the encoding of a decoded 4-byte input is 4 bytes and is the input
\* itself, so decoding it again gives the same bit patterns; bytes 1-2 are
\* the temperature and bytes 3-4 the humidity.
C10_CodecRoundTrip ==
    cstep = "encoded" =>
        /\ Len(output) = 4
        /\ output = input
        /\ SensorFrom(endian, output) = decoded
        /\ SubSeq(output, 1, 2) = to_ne_bytes(endian, decoded.temperature)
        /\ SubSeq(output, 3, 4) = to_ne_bytes(endian, decoded.humidity)
        /\ decoded.temperature = from_ne_bytes(endian, SubSeq(input, 1, 2))
        /\ decoded.humidity = from_ne_bytes(endian, SubSeq(input, 3, 4))

\* C10 witness: an input that decodes to a NaN temperature and an infinite
\* humidity has been encoded again.
C10_Witness ==
    /\ cstep = "encoded"
    /\ IsNaN(decoded.temperature)
    /\ IsInf(decoded.humidity)
    /\ decoded.temperature # decoded.humidity

AllAlive == \A w \in Workers : Alive(w)

\* The requests of the sender of the load specifications.
LoadRids == {<<1, n>> : n \in 1..MaxBurst}

Sent(rid) == rid \in DOMAIN requests

\* The reply to request rid is on the socket of its sender.
Replied(rid) == \E i \in DOMAIN downlink[rid[1]] : downlink[rid[1]][i].rid = rid

\* A worker is occupied with one request while another waits in its pipe.
Backlogged(w) == Holding(w) /\ inbox[w] # <<>>

\* A worker waits for a request and has none in its pipe.
Idle(w) == wpc[w] = "recv_identity" /\ inbox[w] = <<>>

CaughtUp(S) == \A rid \in S : Sent(rid) => Replied(rid) \/ ~AllAlive

C6_NoLossUnderBacklog ==
    []<>CaughtUp({rid \in LoadRids : Sent(rid) => Len(requests[rid]) % 4 = 0})

\* C6 witness: more requests are in flight than there are workers: every
\* worker is occupied with a request and a further one waits in a pipe.
C6_Witness ==
    /\ InFlight > NumWorkers
    /\ \A w \in Workers : Holding(w)
    /\ \E w \in Workers : Backlogged(w)


\* ------------------------------------------------------------- claims, core
\* The value now stored in every zone is what its 4 bytes of the payload decode to.
PayloadMatches(payload, sensors) ==
    /\ Len(payload) = 4 * Len(sensors)
    /\ \A i \in DOMAIN sensors :
        SensorFrom(endian, SubSeq(payload, 4 * (i - 1) + 1, 4 * i)) = sensors[i]

C11_Inv ==
    /\ controller # NoController => Len(controller.sensors) = NumZones
    /\ calls > 0 =>
        /\ Len(data) = 32
        /\ PayloadMatches(data, controller.sensors)

C11_Step ==
    controller # NoController =>
        /\ controller'.id = controller.id
        /\ Len(controller'.sensors) = Len(controller.sensors)
        /\ calls' # calls => Len(data') = 32 /\ PayloadMatches(data', controller'.sensors)

\* C11: a Controller holds exactly 8 sensors from its creation on and no call
\* of sensor_data changes its id or the number of its sensors; every call
\* returns exactly 32 bytes, of which bytes 4i..4i+4 decode to the reading
\* zone i holds after the call.
C11_SensorData == []C11_Inv /\ [][C11_Step]_vars

\* C11 witness: after the last call the first and the last zone hold
\* different readings, which differ from the ones the payload before would
\* decode to.
C11_Witness ==
    /\ calls = MaxCalls
    /\ controller.sensors[1] # controller.sensors[NumZones]
    /\ controller.sensors[1].temperature # controller.sensors[1].humidity
    /\ PayloadMatches(data, controller.sensors)

\* C12: every reading a Controller holds has a temperature in [40,50) and a
\* humidity in [10,20).
C12_HalfOpenRanges ==
    controller # NoController =>
        \A i \in DOMAIN controller.sensors :
            /\ F32(40) <= to_f32(controller.sensors[i].temperature)
            /\ to_f32(controller.sensors[i].temperature) < F32(50)
            /\ F32(10) <= to_f32(controller.sensors[i].humidity)
            /\ to_f32(controller.sensors[i].humidity) < F32(20)


\* ------------------------------------------------------ claims, payloads
WellFormed(p) == Len(p) % 4 = 0

\* A reply to request rid is in a pipe from a worker or to a connection.
ReplyInTransit(rid) ==
    \/ \E w \in Workers : \E i \in DOMAIN outbox[w] : outbox[w][i].rid = rid
    \/ \E c \in Clients : \E i \in DOMAIN downlink[c] : downlink[c][i].rid = rid

Logged(rid) == \E l \in stdout : l.rid = rid

\* A worker at or after its sends holds a payload of whole records; a request
\* with a short last record has no log entry and no reply anywhere, and no
\* frame of a reply to it is held for sending; a connection has been delivered
\* no more replies than it sent requests of whole records; a reply to an
\* empty request is the frame "R".
C13_Inv ==
    /\ \A w \in Workers :
        wpc[w] \in {"send_identity", "send_message"} => WellFormed(message[w])
    /\ \A rid \in DOMAIN requests :
        ~WellFormed(requests[rid]) =>
            /\ ~Logged(rid)
            /\ ~ReplyInTransit(rid)
            /\ \A w \in Workers : wout[w] # <<>> => wrid[w] # rid
    /\ \A c \in Clients :
        Delivered(c) <= Cardinality({rid \in DOMAIN requests :
                                        rid[1] = c /\ WellFormed(requests[rid])})
    /\ \A c \in Clients : \A i \in DOMAIN downlink[c] :
        requests[downlink[c][i].rid] = EmptyPayload
            => downlink[c][i].frames = <<AckFrame>>
    /\ \A w \in Workers : wpc[w] = "log" => ENABLED WorkerLog(w)

\* The step of a worker that holds both frames of a request: with a short
\* last record the worker ends, having printed nothing and sent no frame;
\* otherwise (the empty payload included) it goes on to its sends.
C13_Step ==
    \A w \in Workers :
        wpc[w] = "log" /\ wpc'[w] # "log" =>
            IF WellFormed(message[w])
            THEN wpc'[w] = "send_identity"
            ELSE /\ wpc'[w] = "dead"
                 /\ stdout' = stdout
                 /\ wout'[w] = <<>>
                 /\ outbox' = outbox
                 /\ downlink' = downlink

\* C13: a request whose payload length is not a multiple of 4 ends the worker
\* that received it at the decoding, before any reply frame is sent and with
\* nothing printed, and is never replied to; the payload of length 0 is taken
\* to the sends and replied to with "R".
C13_ShortRecordAborts == []C13_Inv /\ [][C13_Step]_vars

\* C13 witness: a worker has ended on the payload of one record followed by a
\* short one, and the reply to an empty payload is on the sender's socket.
C13_Witness ==
    /\ \E w \in Workers :
        /\ wpc[w] = "dead"
        /\ <<wrid[w], w>> \in handled
        /\ requests[wrid[w]] = TrailingShort
    /\ \E i \in DOMAIN downlink[1] :
        /\ requests[downlink[1][i].rid] = EmptyPayload
        /\ downlink[1][i].frames = <<AckFrame>>

\* The log entry for payload p of identity id, said without the worker's
\* chunking: k = Len(p) / 4 lines, line i numbered i and decoded from bytes
\* 4i..4i+4 alone.
ExpectedLog(id, p) ==
    [header |-> id,
     lines |-> [j \in 1..(Len(p) \div 4) |->
                    [index |-> j - 1,
                     sensor |-> [temperature |->
                                    from_ne_bytes(endian, <<p[4 * j - 3], p[4 * j - 2]>>),
                                 humidity |->
                                    from_ne_bytes(endian, <<p[4 * j - 1], p[4 * j]>>)]]]]

\* C14: the entry a worker prints for a request names the identity of the
\* sending connection and has one line per 4 bytes of the payload, numbered
\* from 0 in payload order, line i decoded from bytes 4i..4i+4; a request has
\* at most one entry; all-zero records are logged as temperature = humidity
\* = +0.0; and the reply to a logged request is the frame "R".
C14_LogEntry ==
    /\ \A l \in stdout :
        /\ l.log = ExpectedLog(cid[l.rid[1]], requests[l.rid])
        /\ Len(l.log.lines) * 4 = Len(requests[l.rid])
        /\ \A k \in stdout : k.rid = l.rid => k = l
        /\ requests[l.rid] = ZeroPayload =>
            /\ Len(l.log.lines) = 8
            /\ \A i \in 1..8 :
                l.log.lines[i] = [index |-> i - 1,
                                  sensor |-> [temperature |-> 0, humidity |-> 0]]
    /\ \A c \in Clients : \A i \in DOMAIN downlink[c] :
        /\ Logged(downlink[c][i].rid)
        /\ downlink[c][i].frames = <<AckFrame>>

\* C14 witness: the entries of the all-zero payload of 8 zones and of the
\* payload of two different records are printed, and the reply to the
\* all-zero payload is on the sender's socket.
C14_Witness ==
    /\ \E l \in stdout : requests[l.rid] = TwoRecords /\ Len(l.log.lines) = 2
    /\ \E l \in stdout : requests[l.rid] = ZeroPayload /\ Len(l.log.lines) = 8
    /\ \E i \in DOMAIN downlink[1] : requests[downlink[1][i].rid] = ZeroPayload


\* ------------------------------------------------------ claims, step order
\* The positions of server_worker in the order of its loop body.
StepOrder == <<"recv_identity", "recv_message", "log", "send_identity", "send_message">>

Position(pc) == CHOOSE i \in DOMAIN StepOrder : StepOrder[i] = pc

\* The entry of a request is printed when the worker comes to its sends, not
\* before it has both frames; a reply, or a frame of one held for sending,
\* exists only for a request whose entry is printed.
C15_Inv ==
    /\ \A w \in Workers :
        /\ wpc[w] \in {"send_identity", "send_message"} => Logged(wrid[w])
        /\ wpc[w] \in {"recv_message", "log"} => ~Logged(wrid[w])
        /\ wout[w] # <<>> => Logged(wrid[w]) /\ wpc[w] = "send_message"
    /\ \A rid \in DOMAIN requests : ReplyInTransit(rid) => Logged(rid)

\* A worker moves from a position of its loop to the next one only (from the
\* last to the first), or ends; it prints only in the step from "log" to
\* "send_identity", and the entry is that of the request it holds; a
\* connection takes from its socket only the reply to a request whose entry
\* is printed.
C15_Step ==
    /\ \A w \in Workers :
        /\ wpc'[w] # wpc[w] /\ wpc'[w] # "dead" =>
            Position(wpc'[w]) = (Position(wpc[w]) % Len(StepOrder)) + 1
        /\ wpc[w] = "log" /\ wpc'[w] = "send_identity" =>
            /\ Cardinality(stdout') = Cardinality(stdout) + 1
            /\ \A l \in stdout' \ stdout : l.rid = wrid[w]
    /\ stdout' # stdout =>
        \E w \in Workers : wpc[w] = "log" /\ wpc'[w] = "send_identity"
    /\ \A c \in Clients :
        consumed'[c] # consumed[c] => Logged(Head(downlink[c]).rid)

\* C15: within a worker the steps for one request are receive identity,
\* receive payload, print the entry, send identity, send "R", in this order;
\* a reply frame exists only for a request whose entry is printed, and the
\* entry of a request is printed when its sender takes its reply.
C15_AckMeansLogged == []C15_Inv /\ [][C15_Step]_vars

\* C15 witness: the sender has taken a reply while a worker, having printed
\* the entry of another request, holds the first reply frame for sending.
C15_Witness ==
    /\ consumed[1] = 1
    /\ \E w \in Workers :
        /\ wpc[w] = "send_message"
        /\ wout[w] = <<identity[w]>>
        /\ Logged(wrid[w])


\* --------------------------------------------------------- claims, startup
\* A frame has been read from the frontend or from a worker by the proxy.
Relaying ==
    \/ \E w \in Workers : inbox[w] # <<>> \/ Busy(w)
    \/ handled # {}
    \/ \E c \in Clients : downlink[c] # <<>> \/ consumed[c] > 0

Spawned(w) == wpc[w] # "unspawned"

\* The backend is bound only with the frontend bound; a worker exists only
\* with both bound; relaying goes on only in zmq::proxy, which is entered
\* with both endpoints bound and all workers spawned; after a failed bind no
\* worker exists and no frame was relayed.
C16_Inv ==
    /\ "backend" \in bound => "frontend" \in bound
    /\ \A w \in Workers : Spawned(w) => bound = {"frontend", "backend"}
    /\ \A w \in Workers : Connected(w) => "backend" \in bound
    /\ \A v, w \in Workers : v < w /\ Spawned(w) => Spawned(v)
    /\ spc = "proxy" =>
        /\ bound = {"frontend", "backend"}
        /\ \A w \in Workers : Spawned(w)
    /\ Relaying => spc = "proxy"
    /\ spc = "aborted" =>
        /\ \A w \in Workers : ~Spawned(w)
        /\ ~Relaying
        /\ "backend" \notin bound
    /\ Cardinality({w \in Workers : Spawned(w)}) <= NumWorkers

\* server_task goes from the bind of the frontend to the bind of the backend
\* to the spawning to zmq::proxy, or from a bind to its end; zmq::proxy is
\* never left; an endpoint stays bound; a pipe of the broker changes only
\* while server_task is in zmq::proxy or by a worker.
C16_Step ==
    /\ spc' # spc =>
        \/ spc = "bind_frontend" /\ spc' \in {"bind_backend", "aborted"}
        \/ spc = "bind_backend" /\ spc' \in {"spawn", "aborted"}
        \/ spc = "spawn" /\ spc' = "proxy"
    /\ spc = "proxy" => spc' = "proxy"
    /\ spc = "aborted" => spc' = "aborted" /\ wpc' = wpc
    /\ bound \subseteq bound'
    /\ inbox' # inbox \/ downlink' # downlink => spc = "proxy"

\* C16: the frontend is bound first, then the backend, then the workers are
\* spawned, then zmq::proxy is entered and never left; no worker connects
\* before the backend is bound; after a failed bind there is no worker and no
\* frame is ever relayed.
C16_StartupOrder == []C16_Inv /\ [][C16_Step]_vars

\* C16 witness: the proxy relays while a spawned worker has not connected yet:
\* a connected worker holds a request.
C16_Witness ==
    /\ spc = "proxy"
    /\ \E w \in Workers : wpc[w] = "connect"
    /\ \E w \in Workers : Holding(w)


\* ---------------------------------------------------------- claims, faults
LiveWorkers == {w \in Workers : Alive(w)}

\* Request rid is on its way: sent and not read by the proxy, or at one of
\* the places of Copies.
InSystem(rid) ==
    \/ \E i \in DOMAIN uplink[rid[1]] : uplink[rid[1]][i].rid = rid
    \/ Copies(rid) > 0

\* The request a worker was processing when it ended has no reply and is at
\* no place of the broker: not in the pipe of another worker, not held by
\* one; it was received by no other worker; nothing is in the pipe of a
\* worker that has ended; the worker the backend sends to next is a live one
\* as long as there is one.
C17_Inv ==
    /\ \A w \in Workers :
        wpc[w] = "dead" =>
            /\ inbox[w] = <<>> /\ wout[w] = <<>>
            /\ wrid[w] # None =>
                /\ ~InSystem(wrid[w])
                /\ \A h \in handled : h[1] = wrid[w] => h[2] = w
    /\ LiveWorkers # {} => rr \in LiveWorkers
    /\ \A w \in LiveWorkers :
        /\ wpc[w] = "recv_identity" /\ inbox[w] # <<>> => ENABLED WorkerRecvIdentity(w)
        /\ Busy(w) => ENABLED server_worker(w)
    /\ \A c \in Clients :
        uplink[c] # <<>> /\ LiveWorkers # {} => ENABLED ProxyRequest(c)
    /\ \A w \in Workers : outbox[w] # <<>> => ENABLED ProxyReply(w)

\* No worker is added or started again; the end of a worker changes nothing
\* at another worker, nor in the pipes from the workers and to the
\* connections.
C17_Step ==
    /\ LiveWorkers' \subseteq LiveWorkers
    /\ \A w \in Workers :
        wpc'[w] = "dead" /\ wpc[w] # "dead" =>
            /\ \A v \in Workers \ {w} :
                /\ wpc'[v] = wpc[v]
                /\ inbox'[v] = inbox[v]
                /\ wout'[v] = wout[v]
            /\ outbox' = outbox
            /\ downlink' = downlink
            /\ uplink' = uplink
            /\ handled' = handled

\* Every request sent so far is replied to or was lost with a worker, or no
\* worker is left.
Settled ==
    \/ LiveWorkers = {}
    \/ \A rid \in DOMAIN requests : Replied(rid) \/ ~InSystem(rid)

\* C17: the 5 workers live at the start and their number only decreases; the
\* end of a worker (an error of a receive or a send, a short record, an
\* identity that cannot be read) leaves the proxy and the other workers as
\* they are; the request it was processing is never replied to, never given
\* to another worker and never received by one; and as long as a worker is
\* left, every other request is eventually replied to unless it was in the
\* pipe of a worker that ended.
C17_WorkerFailureIsolated ==
    /\ Cardinality(LiveWorkers) = NumWorkers
    /\ []C17_Inv
    /\ [][C17_Step]_vars
    /\ []<>Settled

\* C17 witness: a worker has ended on a transport error while it waited for
\* a request, another has ended on a short record, and the request sent
\* after that one has been replied to through a third worker.
C17_Witness ==
    /\ \E w \in Workers : wpc[w] = "dead" /\ wrid[w] = None
    /\ \E w \in Workers :
        /\ wpc[w] = "dead"
        /\ wrid[w] = <<1, 1>>
        /\ <<wrid[w], w>> \in handled
        /\ requests[wrid[w]] = ShortPayload
    /\ Replied(<<1, 2>>)
    /\ Cardinality(LiveWorkers) = NumWorkers - 2


\* ----------------------------------------------------- claims, concurrency
\* The reply to the second request of connection 1 is on its socket while a
\* worker still holds the first.
SecondFirst ==
    /\ Replied(<<1, 2>>)
    /\ \E w \in Workers : Holding(w) /\ wrid[w] = <<1, 1>>

\* The proxy hands over a request of a connection whatever has become of the
\* earlier requests of that connection; a worker that has a request goes on
\* whatever the other workers do; a reply in a worker's pipe can be relayed
\* whatever other replies are due.
C18_Inv ==
    /\ \A c \in Clients :
        uplink[c] # <<>> /\ LiveWorkers # {} => ENABLED ProxyRequest(c)
    /\ \A w \in LiveWorkers :
        /\ inbox[w] # <<>> \/ Busy(w) => ENABLED server_worker(w)
        /\ wpc[w] = "send_message" => ENABLED WorkerSendMessage(w)
    /\ \A w \in Workers : outbox[w] # <<>> => ENABLED ProxyReply(w)
    /\ SecondFirst =>
        \E g, h \in handled : g[1] = <<1, 1>> /\ h[1] = <<1, 2>> /\ g[2] # h[2]

\* A request goes to the worker whose turn it is, and the turn passes to
\* another worker if there is one: two requests that follow one another go to
\* different workers.
C18_Step ==
    \A w \in Workers :
        Len(inbox'[w]) > Len(inbox[w]) =>
            /\ w = rr
            /\ \E c \in Clients :
                /\ uplink[c] # <<>>
                /\ inbox'[w] = Append(inbox[w], RouterRecv(c, Head(uplink[c])))
            /\ Cardinality(LiveWorkers) >= 2 => rr' # rr /\ rr' \in LiveWorkers

\* C18: nothing in the broker orders the requests of one identity: the proxy
\* hands each request to the next worker of the rotation without regard to
\* earlier requests of the same identity, and every worker and every reply
\* proceeds on its own, so that the worker of a later request can reply
\* first; a later request is replied to before an earlier one only through
\* another worker.
C18_NotSerialised == []C18_Inv /\ [][C18_Step]_vars

\* C18 witness: the two requests a connection sent one after the other are
\* held by two different workers at the same time, and the worker of the
\* second request is about to send its "R" while the worker of the first has
\* not printed its entry yet.
C18_Witness ==
    \E v, w \in Workers :
        /\ v # w
        /\ wpc[w] = "log" /\ wrid[w] = <<1, 1>>
        /\ wpc[v] = "send_message" /\ wrid[v] = <<1, 2>>
        /\ cid[1] = identity[v] /\ identity[v] = identity[w]


\* ---------------------------------------------------- claims, statelessness
\* What a worker holds between two iterations of its loop: nothing.
Fresh(w) ==
    /\ identity[w] = None
    /\ message[w] = None
    /\ wout[w] = <<>>

\* A worker that waits for a request holds nothing of an earlier one; what it
\* holds while it processes a request is of that request alone; the reply it
\* sends is the identity frame of that request and "R", whichever worker it
\* is and whatever it processed before; the entry it prints is made of that
\* request alone.
C19_Inv ==
    /\ \A w \in Workers :
        /\ wpc[w] = "recv_identity" => Fresh(w)
        /\ wpc[w] = "recv_message" =>
            identity[w] = cid[wrid[w][1]] /\ message[w] = None /\ wout[w] = <<>>
        /\ Holding(w) =>
            /\ identity[w] = cid[wrid[w][1]]
            /\ message[w] = requests[wrid[w]]
            /\ wout[w] = IF wpc[w] = "send_message" THEN <<cid[wrid[w][1]]>> ELSE <<>>
        /\ \A i \in DOMAIN outbox[w] :
            outbox[w][i].frames = <<cid[outbox[w][i].rid[1]], AckFrame>>
    /\ \A v, w \in Workers : \A i \in DOMAIN outbox[v] : \A j \in DOMAIN outbox[w] :
        outbox[v][i].rid[1] = outbox[w][j].rid[1] => outbox[v][i].frames = outbox[w][j].frames
    /\ \A c \in Clients : \A i \in DOMAIN downlink[c] :
        downlink[c][i].frames = <<AckFrame>> /\ downlink[c][i].rid[1] = c
    /\ \A l \in stdout : l.log = ExpectedLog(cid[l.rid[1]], requests[l.rid])

\* The step that sends the reply leaves the worker as it was before it
\* received the request, and the reply it adds is made of the identity frame
\* it received for this request.
C19_Step ==
    \A w \in Workers :
        wpc[w] = "send_message" /\ wpc'[w] # wpc[w] =>
            /\ wpc'[w] = "recv_identity"
            /\ Fresh(w)'
            /\ outbox'[w] = Append(outbox[w], Msg(<<cid[wrid[w][1]], AckFrame>>, wrid[w]))

\* C19: a worker keeps nothing from one iteration of its loop to the next,
\* and the reply to a request is the identity frame of that request followed
\* by "R" whichever worker processes it and whatever that worker processed
\* before.
C19_StatelessWorkers == []C19_Inv /\ [][C19_Step]_vars

\* C19 witness: a worker that has processed a request of one connection holds
\* a request of another connection with another payload, both connections
\* have a reply on their sockets, and replies of one connection came through
\* different workers.
C19_Witness ==
    /\ \E w \in Workers : \E g \in handled :
        /\ g[2] = w
        /\ Holding(w)
        /\ wrid[w] # g[1]
        /\ wrid[w][1] # g[1][1]
        /\ requests[wrid[w]] # requests[g[1]]
        /\ Replied(g[1])
    /\ \A c \in {1, NumClients} : downlink[c] # <<>>
    /\ \E g, h \in handled : g[1][1] = h[1][1] /\ g[2] # h[2] /\ Replied(g[1]) /\ Replied(h[1])


\* ------------------------------------------------ claims, reference agents
\* C20: with the reference client agents alone, every request is a payload
\* of 32 bytes under an identity that is the text the agent set, what a
\* worker finds in its pipe and holds is such an identity and such a payload,
\* and so all 5 workers are alive, and so are the agents.
C20_ReferenceOnly ==
    /\ AllAlive
    /\ Cardinality(LiveWorkers) = NumWorkers
    /\ \A c \in Clients : IsUtf8(cid[c]) /\ cid[c] # <<>> /\ cpc[c] # "dead"
    /\ \A rid \in DOMAIN requests :
        /\ Len(requests[rid]) = 4 * NumZones
        /\ Len(requests[rid]) = 32
        /\ \A i \in DOMAIN Chunks(requests[rid]) : ~SensorFromPanics(Chunks(requests[rid])[i])
    /\ \A w \in Workers :
        /\ wpc[w] = "recv_identity" /\ inbox[w] # <<>> => IsUtf8(RecvFrame(w))
        /\ Busy(w) => IsUtf8(identity[w]) /\ identity[w] = cid[wrid[w][1]]
        /\ Holding(w) => Len(message[w]) = 32
    /\ \A l \in stdout : Len(l.log.lines) = NumZones

\* C20 witness: both agents have sent twice, the entries of all their requests
\* are printed, printed by more than one worker, and an agent has taken a reply.
C20_Witness ==
    /\ \A c \in Clients : sent[c] = MaxSends
    /\ \A rid \in DOMAIN requests : Logged(rid)
    /\ \E g, h \in handled : g[2] # h[2]
    /\ \E c \in Clients : consumed[c] > 0
    /\ AllAlive

=============================================================================
